---- MODULE Spec2Model ----
(***************************************************************************)
(* Model of the conversation pipeline (MLBBCoachingGraph and the two chat  *)
(* endpoints that drive it) and of the session store (SessionManager) of   *)
(* the MLBB coach service.                                                 *)
(*                                                                         *)
(* Five specifications live in this module:                                *)
(*   Spec            the chat endpoints and the coaching graph;            *)
(*   SessionSpec     the SessionManager with its Redis / in-memory stores, *)
(*                   one caller at a time;                                 *)
(*   ConcurrentSpec  the SessionManager with two callers whose requests    *)
(*                   (load, append, save) interleave;                      *)
(*   AuthSpec        the register endpoint and the users table;            *)
(*   HelperSpec      direct calls of the helper functions.                 *)
(* The code keeps these parts apart (the endpoints use their own           *)
(* `sessions` dictionaries and never call the SessionManager), so each     *)
(* specification leaves the other parts' variables at their initial        *)
(* values.                                                                 *)
(***************************************************************************)
EXTENDS Integers, Sequences, FiniteSets, TLC

VARIABLES
    \* ---- configuration (Settings / LLMFactory) ----
    api_key,        \* provider -> the API key of the settings (NoneV: not set)
    realKey,        \* provider -> BOOLEAN : is_available() of each provider
    \* ---- chat endpoints ----
    sessions,       \* endpoint -> session id -> the list stored, NoneV: no key
    pc,             \* position of the request in flight
    req,            \* the request in flight, with the history its session had
    state,          \* CoachingState of the request in flight (all keys but messages)
    messages,       \* the `messages` channel of the graph state
    out,            \* what the endpoint answered last
    \* ---- observation of the collaborators (history variables) ----
    calls,          \* retrieval calls made by the request in flight
    hits,           \* context slot -> what the vector store answered for it
    llmCalls,       \* LLM invocations made by the request in flight
    writes,         \* how often the request in flight assigned intent / response
    failure,        \* the node whose exception ended the request in flight, if any
    \* ---- SessionManager ----
    use_redis,      \* SessionManager._use_redis
    redis_client,   \* SessionManager._redis_client is not None
    memory_store,   \* SessionManager._memory_store : id -> list object (0: no key)
    heap,           \* the list objects : reference -> content
    redis,          \* the Redis server : key -> [kind, data, ttl]
    held,           \* the list object the caller holds (0: none)
    ret,            \* record of the last SessionManager operation
    hist,           \* history variables of the session store
    \* ---- direct calls of the helper functions ----
    probe,          \* the last direct call: function, argument, result
    \* ---- concurrent callers of the SessionManager ----
    workers,        \* caller -> its request: position, session id, list object held
    \* ---- register endpoint ----
    users,          \* the rows of the users table
    regs            \* register request -> its position, body and answer

chatVars    == <<sessions, pc, req, state, messages, out, calls, hits, llmCalls,
                 writes, failure>>
configVars  == <<api_key, realKey>>
sessionVars == <<use_redis, redis_client, memory_store, heap, redis, held, ret, hist>>
probeVars   == <<probe>>
workerVars  == <<workers>>
authVars    == <<users, regs>>
vars        == <<configVars, chatVars, sessionVars, probeVars, workerVars, authVars>>

-----------------------------------------------------------------------------
(* Bounds of the model *)

\* settings.MAX_CONVERSATION_HISTORY: a configuration value (default 10, set from
\* the environment); the model runs it at a small value.
MAX_CONVERSATION_HISTORY == 2

\* number of SessionManager calls after which the callers of the model stop
MaxOps == 4

\* number of add_message / delete_session calls made beside the two requests of
\* ConcurrentSpec
MaxCalls == 1

-----------------------------------------------------------------------------
(* Python values *)

NoneV   == [some |-> FALSE]
Some(v) == [some |-> TRUE, v |-> v]

\* truthiness of an Optional[str]
Truthy(o) == o.some /\ o.v # ""

Providers == {"claude", "gemini"}

\* settings.DEFAULT_LLM_PROVIDER
DEFAULT_LLM_PROVIDER == "claude"
Endpoints == {"routes", "v1"}
SessionIds == {"s1", "s2"}
Queries == {"Tell me about Layla"}
Languages == {"en", "my"}

\* langchain messages: the class of the object and its content
HumanMessage(c)  == [class |-> "HumanMessage", content |-> c]
AIMessage(c)     == [class |-> "AIMessage", content |-> c]
SystemMessage(c) == [class |-> "SystemMessage", content |-> c]

-----------------------------------------------------------------------------
(* _extract_text *)

\* " ".join(parts)
RECURSIVE JoinWith(_, _)
JoinWith(sep, parts) ==
    IF parts = <<>> THEN ""
    ELSE IF Len(parts) = 1 THEN parts[1]
    ELSE parts[1] \o sep \o JoinWith(sep, Tail(parts))

\* the parts of a list content that are kept: plain strings and dicts with "text"
RECURSIVE TextParts(_)
TextParts(content) ==
    IF content = <<>> THEN <<>>
    ELSE LET part == Head(content)
             rest == TextParts(Tail(content))
         IN  IF part.kind = "str" THEN <<part.text>> \o rest
             ELSE IF part.kind = "dict" /\ part.has_text THEN <<part.text>> \o rest
             ELSE rest

\* an _extract_text that glues the parts together without a separator
_extract_text_Glued(content) ==
    IF content.list THEN JoinWith("", TextParts(content.parts))
    ELSE content.text

\* content is [list |-> FALSE, text |-> s] or [list |-> TRUE, parts |-> <<part, ...>>]
_extract_text(content) ==
    IF content.list THEN JoinWith(" ", TextParts(content.parts))
    ELSE content.text

StrContent(s)   == [list |-> FALSE, text |-> s]
ListContent(ps) == [list |-> TRUE, parts |-> ps]
StrPart(s)      == [kind |-> "str", text |-> s, has_text |-> FALSE]
TextDict(s)     == [kind |-> "dict", text |-> s, has_text |-> TRUE]
OtherDict       == [kind |-> "dict", text |-> "", has_text |-> FALSE]

-----------------------------------------------------------------------------
(* _is_real_key: API keys are sequences of characters *)

UpperLetters == <<"A", "B", "C", "D", "E", "F", "G", "H", "I", "J", "K", "L", "M",
                  "N", "O", "P", "Q", "R", "S", "T", "U", "V", "W", "X", "Y", "Z">>
LowerLetters == <<"a", "b", "c", "d", "e", "f", "g", "h", "i", "j", "k", "l", "m",
                  "n", "o", "p", "q", "r", "s", "t", "u", "v", "w", "x", "y", "z">>
Digits == {"0", "1", "2", "3", "4", "5", "6", "7", "8", "9"}

\* str.lower(), character by character
LowerChar(c) ==
    IF \E i \in 1..Len(UpperLetters) : UpperLetters[i] = c
    THEN LowerLetters[CHOOSE i \in 1..Len(UpperLetters) : UpperLetters[i] = c]
    ELSE c

Lower(str) == [i \in 1..Len(str) |-> LowerChar(str[i])]

\* str.startswith
StartsWith(str, prefix) ==
    Len(str) >= Len(prefix) /\ SubSeq(str, 1, Len(prefix)) = prefix

\* placeholder_prefixes (line 28)
placeholder_prefixes ==
    <<<<"y", "o", "u", "r", "_">>,
      <<"s", "k", "-", "p", "l", "a", "c", "e", "h", "o", "l", "d", "e", "r">>,
      <<"c", "h", "a", "n", "g", "e", "-">>,
      <<"x", "x", "x">>,
      <<"T", "O", "D", "O">>>>

\* the values of line 31
PlaceholderValues == {<<>>, <<"n", "o", "n", "e">>, <<"n", "u", "l", "l">>, <<"u", "n", "d", "e", "f", "i", "n", "e", "d">>}

\* `len(key) >= 20`
RealKeyMinLen == 20

\* the keys of the model
\* ""
KeyEmpty == <<>>
\* "your_api_key_here"
KeyYourApiKeyHere == <<"y", "o", "u", "r", "_", "a", "p", "i", "_", "k", "e", "y",
    "_", "h", "e", "r", "e">>
\* "none"
KeyNone == <<"n", "o", "n", "e">>
\* "null"
KeyNull == <<"n", "u", "l", "l">>
\* "undefined"
KeyUndefined == <<"u", "n", "d", "e", "f", "i", "n", "e", "d">>
\* "4f9A2b7C1d8E3g6H5j0K4f9A2b7C1d8E3g6H5j0K"
KeyAlnum40 == <<"4", "f", "9", "A", "2", "b", "7", "C", "1", "d", "8", "E", "3",
    "g", "6", "H", "5", "j", "0", "K", "4", "f", "9", "A", "2", "b", "7", "C", "1",
    "d", "8", "E", "3", "g", "6", "H", "5", "j", "0", "K">>
\* "Q7W3E9R1T5Y2U8I4O6P0Q7W3E9R1T5Y2U8I4O6P0"
KeyAlnum40Upper == <<"Q", "7", "W", "3", "E", "9", "R", "1", "T", "5", "Y", "2",
    "U", "8", "I", "4", "O", "6", "P", "0", "Q", "7", "W", "3", "E", "9", "R", "1",
    "T", "5", "Y", "2", "U", "8", "I", "4", "O", "6", "P", "0">>

Keys ==
    {NoneV} \cup
    {Some(k) : k \in {
        KeyEmpty, KeyYourApiKeyHere, KeyNone, KeyNull,
        KeyUndefined, KeyAlnum40, KeyAlnum40Upper,
        \* "YOUR_SECRET_KEY_0123456789"
        <<"Y", "O", "U", "R", "_", "S", "E", "C", "R", "E", "T", "_", "K",
          "E", "Y", "_", "0", "1", "2", "3", "4", "5", "6", "7", "8", "9">>,
        \* "sk-placeholder-0123456789"
        <<"s", "k", "-", "p", "l", "a", "c", "e", "h", "o", "l", "d", "e",
          "r", "-", "0", "1", "2", "3", "4", "5", "6", "7", "8", "9">>,
        \* "change-me-0123456789abcdef"
        <<"c", "h", "a", "n", "g", "e", "-", "m", "e", "-", "0", "1", "2",
          "3", "4", "5", "6", "7", "8", "9", "a", "b", "c", "d", "e", "f">>,
        \* "xxx4f9A2b7C1d8E3g6H5j0K4f9A2b7C1d8E3g6H5"
        <<"x", "x", "x", "4", "f", "9", "A", "2", "b", "7", "C", "1", "d",
          "8", "E", "3", "g", "6", "H", "5", "j", "0", "K", "4", "f", "9",
          "A", "2", "b", "7", "C", "1", "d", "8", "E", "3", "g", "6", "H",
          "5">>,
        \* "TODO4f9A2b7C1d8E3g6H5j0K4f9A2b7C1d8E3g6H"
        <<"T", "O", "D", "O", "4", "f", "9", "A", "2", "b", "7", "C", "1",
          "d", "8", "E", "3", "g", "6", "H", "5", "j", "0", "K", "4", "f",
          "9", "A", "2", "b", "7", "C", "1", "d", "8", "E", "3", "g", "6",
          "H">>,
        \* "4f9A2b7C1d8E3g6H5j0"
        <<"4", "f", "9", "A", "2", "b", "7", "C", "1", "d", "8", "E", "3",
          "g", "6", "H", "5", "j", "0">>,
        \* "4f9A2b7C1d8E3g6H5j0K"
        <<"4", "f", "9", "A", "2", "b", "7", "C", "1", "d", "8", "E", "3",
          "g", "6", "H", "5", "j", "0", "K">>,
        \* "sk-ant-REDACTED"
        <<"s", "k", "-", "a", "n", "t", "-", "a", "p", "i", "0", "3", "-",
          "4", "f", "9", "A", "2", "b", "7", "C", "1", "d", "8", "E", "3",
          "g", "6", "H", "5", "j", "0", "K">>}}

\* a key check that only looks at the length
_is_real_key_LengthOnly(key) == key.some /\ Len(key.v) >= RealKeyMinLen

\* _is_real_key (provider.py lines 24-34); key is NoneV or Some(characters)
_is_real_key(key) ==
    IF ~key.some \/ key.v = <<>> THEN FALSE
    ELSE IF \E i \in 1..Len(placeholder_prefixes) :
                StartsWith(Lower(key.v), Lower(placeholder_prefixes[i]))
    THEN FALSE
    ELSE IF key.v \in PlaceholderValues THEN FALSE
    ELSE Len(key.v) >= RealKeyMinLen

-----------------------------------------------------------------------------
(* LLMFactory *)

\* LLMFactory.list_available_providers
list_available_providers == {p \in Providers : realKey[p]}

\* a factory that hands out another configured provider when the one asked for is
\* not usable
get_provider_Substitute(provider) ==
    LET p == IF provider.some THEN provider.v ELSE DEFAULT_LLM_PROVIDER
    IN  IF p \in Providers /\ realKey[p] THEN [ok |-> TRUE, provider |-> p]
        ELSE IF \E q \in Providers : realKey[q]
        THEN [ok |-> TRUE, provider |-> CHOOSE q \in Providers : realKey[q]]
        ELSE [ok |-> FALSE, error |-> "ValueError"]

\* LLMFactory.get_provider: the provider resolved, or a ValueError
get_provider(provider) ==
    LET p == IF provider.some THEN provider.v ELSE DEFAULT_LLM_PROVIDER
    IN  IF p \notin Providers THEN [ok |-> FALSE, error |-> "ValueError"]
        ELSE IF ~realKey[p] THEN [ok |-> FALSE, error |-> "ValueError"]
        ELSE [ok |-> TRUE, provider |-> p]

\* _check_provider_available / _check_provider: 0 when the request may go on
_check_provider_available(llm_provider) ==
    IF list_available_providers = {} THEN 503
    ELSE IF llm_provider.some /\ llm_provider.v \notin list_available_providers THEN 400
    ELSE 0

-----------------------------------------------------------------------------
(* Intent classification *)

valid_intents ==
    {"hero_info", "build_recommendation", "matchup_analysis", "general_strategy",
     "general_chat"}

\* what the classifier model may answer, and what .strip().lower() makes of it
ClassifierTexts ==
    valid_intents \cup
    {" Hero_Info\n", "GENERAL_CHAT", "matchup_analysis general_strategy",
     "This is a question about builds.", ""}

StripLower(s) ==
    CASE s = " Hero_Info\n" -> "hero_info"
      [] s = "GENERAL_CHAT" -> "general_chat"
      [] s = "This is a question about builds." -> "this is a question about builds."
      [] OTHER -> s

\* a classifier answer stored without validation
ValidateIntent_Unchecked(intent) == intent

\* lines 77-82: the intent stored for a classifier answer
ValidateIntent(intent) ==
    IF intent \notin valid_intents THEN "general_strategy" ELSE intent

ClassifiedIntent(content) == ValidateIntent(StripLower(_extract_text(content)))

\* the contents the classifier model returns in the model
ClassifierContents ==
    {StrContent(t) : t \in ClassifierTexts} \cup
    {ListContent(<<TextDict("build_recommendation")>>),
     ListContent(<<StrPart("matchup_analysis"), TextDict("general_strategy")>>)}

-----------------------------------------------------------------------------
(* Retrieval *)

Doc1 == [page_content |-> "Layla is a marksman.",
         metadata |-> [source |-> Some("heroes.json"), hero |-> Some("Layla"),
                       category |-> NoneV]]
Doc2 == [page_content |-> "Farm safely in the early game.",
         metadata |-> [source |-> NoneV, hero |-> NoneV, category |-> NoneV]]

\* RAG_SCORE_THRESHOLD of the settings, in hundredths
RAG_SCORE_THRESHOLD == 70

\* what the vector store backend may find for a query: the passages in its order,
\* each with its similarity score in hundredths
BackendResults ==
    {<<>>,
     <<[doc |-> Doc1, score |-> 90]>>,
     <<[doc |-> Doc1, score |-> 90], [doc |-> Doc2, score |-> 40]>>}

\* VectorStoreManager.similarity_search: the passages the backend found
similarity_search(results) == [i \in 1..Len(results) |-> results[i].doc]

\* VectorStoreManager.similarity_search_with_score: the (passage, score) pairs
\* with score >= threshold
similarity_search_with_score(results) ==
    SelectSeq(results, LAMBDA hit : hit.score >= RAG_SCORE_THRESHOLD)

\* MLBBRetriever.retrieve_context
retrieve_context(results) == similarity_search(results)

\* the context slots of the state and the answers of the backend before any call
ContextSlots == {"hero_context", "build_context", "strategy_context"}
NoHits == [slot \in ContextSlots |-> NoneV]

\* the metadata line of a document header
SourceInfo(metadata) ==
    (IF metadata.source.some THEN <<"Source: " \o metadata.source.v>> ELSE <<>>) \o
    (IF metadata.hero.some THEN <<"Hero: " \o metadata.hero.v>> ELSE <<>>) \o
    (IF metadata.category.some THEN <<"Category: " \o metadata.category.v>> ELSE <<>>)

FormatOne(i, doc) ==
    LET source_info == SourceInfo(doc.metadata)
        header == ("\n--- Document " \o ToString(i) \o " ---") \o
                  (IF source_info # <<>> THEN "\n" \o JoinWith(", ", source_info) ELSE "")
    IN  header \o "\n" \o doc.page_content \o "\n"

\* MLBBRetriever.format_documents
format_documents(documents) ==
    JoinWith("\n", [i \in 1..Len(documents) |-> FormatOne(i, documents[i])])

\* a hero stage that also runs for small talk
HeroStageRuns_Chatty(intent) ==
    intent \in {"hero_info", "matchup_analysis", "general_chat"}

\* the intent predicate of each retrieval stage
HeroStageRuns(intent)     == intent \in {"hero_info", "matchup_analysis"}
BuildStageRuns(intent)    == intent = "build_recommendation"
StrategyStageRuns(intent) == intent \in {"general_strategy", "matchup_analysis"}

\* k passed by each stage
HeroK     == 3
BuildK    == 3
StrategyK == 5

\* the call a stage makes: retrieve_context(query, k=k), namespace and filter
\* are left at their defaults (None)
RetrieveCall(retriever, query, k) ==
    [retriever |-> retriever, query |-> query, k |-> k, namespace |-> NoneV]

-----------------------------------------------------------------------------
(* Response synthesis *)

\* lines 115-124: the context blocks of the synthesis prompt, in order
ContextParts(st) ==
    (IF Truthy(st.hero_context)
        THEN <<"Hero Information:\n" \o st.hero_context.v>> ELSE <<>>) \o
    (IF Truthy(st.build_context)
        THEN <<"Build Information:\n" \o st.build_context.v>> ELSE <<>>) \o
    (IF Truthy(st.strategy_context)
        THEN <<"Strategy Information:\n" \o st.strategy_context.v>> ELSE <<>>)

Context(st) ==
    IF ContextParts(st) # <<>> THEN JoinWith("\n\n", ContextParts(st))
    ELSE "No specific context available."

\* the synthesis prompt: which system instruction, the context, the language
\* directive and the user turn
SynthesisPrompt(st) ==
    [system_prompt |-> IF st.intent.some /\ st.intent.v \in valid_intents
                          THEN st.intent.v ELSE "general_strategy",
     context |-> Context(st),
     burmese |-> (IF st.language.some THEN st.language.v ELSE "en") = "my",
     query |-> st.user_query]

\* the contents the synthesis model returns in the model
ResponseContents ==
    {StrContent("Layla is a late game marksman."),
     ListContent(<<TextDict("Layla"), StrPart("is strong late."), OtherDict>>)}

\* temperatures, in tenths
ClassifyTemperature == 1
GenerateTemperature == 7

\* error texts of a failing collaborator, as the endpoints tell them apart
ErrorTexts == {"Invalid API key provided", "connection reset"}
IsAuthText(error_msg) == error_msg = "Invalid API key provided"


-----------------------------------------------------------------------------
(* The chat endpoints and the coaching graph *)

\* an initial state whose response starts as the empty string
initial_state_EmptyResponse(user_message, llm_provider, language) ==
    [user_query |-> user_message, intent |-> NoneV, hero_context |-> NoneV,
     build_context |-> NoneV, strategy_context |-> NoneV,
     llm_provider |-> llm_provider, language |-> language, response |-> Some("")]

\* process_message lines 238-248
initial_state(user_message, llm_provider, language) ==
    [user_query |-> user_message, intent |-> NoneV, hero_context |-> NoneV,
     build_context |-> NoneV, strategy_context |-> NoneV,
     llm_provider |-> llm_provider, language |-> language, response |-> NoneV]

NoRequest == [endpoint |-> "routes", session_id |-> "s1", message |-> "",
              llm_provider |-> NoneV, language |-> NoneV, prior |-> <<>>]
NoState   == [user_query |-> "", intent |-> NoneV, hero_context |-> NoneV,
              build_context |-> NoneV, strategy_context |-> NoneV,
              llm_provider |-> NoneV, language |-> NoneV, response |-> NoneV]
NoFailure == [stage |-> "none", exc |-> [type |-> "none", text |-> ""]]
NoOut     == [status |-> 0, response |-> NoneV, intent |-> NoneV, sources |-> <<>>,
              has_sources |-> FALSE]

\* the reducer of the messages channel: Annotated[Sequence[BaseMessage], operator.add]
Reducer(current, update) == current \o update

\* the language the endpoint hands to process_message
RequestLanguages(endpoint) ==
    IF endpoint = "routes" THEN {NoneV} ELSE {Some(l) : l \in Languages}

\* the except clauses of the two endpoints: the status an exception becomes
HandlerStatus(endpoint, exc) ==
    IF endpoint = "routes"
    THEN IF exc.type = "ValueError" THEN 400
         ELSE IF IsAuthText(exc.text) THEN 401
         ELSE 500
    ELSE 500

\* a node that swallows the exception and runs again
Raise_Retry(exc) ==
    /\ pc' = pc
    /\ UNCHANGED <<failure, out, sessions, req, state, messages, writes>>

\* an exception leaves the graph and the endpoint answers with an error status
Raise(exc) ==
    /\ pc' = "raised"
    /\ failure' = [stage |-> pc, exc |-> exc]
    /\ out' = [NoOut EXCEPT !.status = HandlerStatus(req.endpoint, exc)]
    /\ UNCHANGED <<sessions, req, state, messages, writes>>

\* `conversation_history or []` (process_message line 239): an empty history is
\* falsy, so the graph starts from a list of its own and the caller's stays empty
HistoryOrNew(conversation_history) ==
    [own |-> conversation_history = <<>>, list |-> conversation_history]

\* chat(), up to the start of graph.invoke: the provider check, the session looked up
\* or created, process_message up to the appended user message
ChatStart(endpoint, session_id, message, llm_provider, language) ==
    /\ pc \in {"idle", "raised"}
    /\ LET status == _check_provider_available(llm_provider)
           conversation_history == IF sessions[endpoint][session_id].some
                                   THEN sessions[endpoint][session_id].v ELSE <<>>
           start == HistoryOrNew(conversation_history)
           appended == Append(start.list, HumanMessage(message))
       IN  IF status # 0
           THEN /\ out' = [NoOut EXCEPT !.status = status]
                /\ pc' = "idle"
                /\ req' = NoRequest
                /\ state' = NoState
                /\ messages' = <<>>
                /\ UNCHANGED sessions
           ELSE /\ sessions' = [sessions EXCEPT ![endpoint][session_id] =
                                   Some(IF start.own THEN conversation_history
                                        ELSE appended)]
                /\ req' = [endpoint |-> endpoint, session_id |-> session_id,
                           message |-> message, llm_provider |-> llm_provider,
                           language |-> language, prior |-> conversation_history]
                /\ state' = initial_state(message, llm_provider, language)
                /\ messages' = Reducer(<<>>, appended)
                /\ pc' = "classify_intent"
                /\ out' = NoOut
    /\ calls' = <<>>
    /\ hits' = NoHits
    /\ llmCalls' = <<>>
    /\ writes' = [intent |-> 0, response |-> 0]
    /\ failure' = NoFailure
    /\ UNCHANGED <<configVars, probeVars, workerVars, authVars, sessionVars>>

\* the classification prompt: the fixed instruction and the user turn
ClassificationPrompt(st) == [query |-> st.user_query]

\* one chain.invoke: the node, the model it was built for, the prompt it was sent
\* and the content of the answer (NoneV when the call raised)
LLMCall(stage, temperature, provider, prompt, answer) ==
    [stage |-> stage, temperature |-> temperature, provider |-> provider,
     prompt |-> prompt, answer |-> answer]

\* _classify_intent
ClassifyIntent ==
    /\ pc = "classify_intent"
    /\ LET model == get_provider(state.llm_provider)
           call(answer) == LLMCall("classify_intent", ClassifyTemperature,
                                   model.provider, ClassificationPrompt(state), answer)
       IN  IF ~model.ok
           THEN /\ Raise([type |-> "ValueError", text |-> "not configured"])
                /\ UNCHANGED llmCalls
           ELSE \/ \E text \in ErrorTexts :
                     /\ llmCalls' = Append(llmCalls, call(NoneV))
                     /\ Raise([type |-> "Exception", text |-> text])
                \/ \E content \in ClassifierContents :
                     /\ llmCalls' = Append(llmCalls, call(Some(content)))
                     /\ state' = [state EXCEPT
                            !.intent = Some(ClassifiedIntent(content))]
                     /\ writes' = [writes EXCEPT !.intent = @ + 1]
                     /\ messages' = Reducer(messages, messages)
                     /\ pc' = "retrieve_hero"
                     /\ UNCHANGED <<sessions, req, out, failure>>
    /\ UNCHANGED <<calls, hits, configVars, probeVars, workerVars, authVars, sessionVars>>

\* a retrieval stage: _retrieve_hero_context, _retrieve_build_context,
\* _retrieve_strategy_context
RetrieveStage(stage, runs, retriever, k, slot, next) ==
    /\ pc = stage
    /\ IF runs
       THEN /\ calls' = Append(calls, RetrieveCall(retriever, state.user_query, k))
            /\ \/ \E text \in ErrorTexts :
                      /\ Raise([type |-> "Exception", text |-> text])
                      /\ UNCHANGED hits
               \/ \E results \in BackendResults :
                      /\ hits' = [hits EXCEPT ![slot] = Some(results)]
                      /\ state' = [state EXCEPT ![slot] =
                             Some(format_documents(retrieve_context(results)))]
                      /\ messages' = Reducer(messages, messages)
                      /\ pc' = next
                      /\ UNCHANGED <<sessions, req, out, writes, failure>>
       ELSE /\ messages' = Reducer(messages, messages)
            /\ pc' = next
            /\ UNCHANGED <<calls, hits, sessions, req, out, writes, state, failure>>
    /\ UNCHANGED <<llmCalls, configVars, probeVars, workerVars, authVars, sessionVars>>

RetrieveHero ==
    RetrieveStage("retrieve_hero", HeroStageRuns(state.intent.v), "hero", HeroK,
                  "hero_context", "retrieve_build")

RetrieveBuild ==
    RetrieveStage("retrieve_build", BuildStageRuns(state.intent.v), "build", BuildK,
                  "build_context", "retrieve_strategy")

RetrieveStrategy ==
    RetrieveStage("retrieve_strategy", StrategyStageRuns(state.intent.v), "strategy",
                  StrategyK, "strategy_context", "generate_response")

\* _generate_response
GenerateResponse ==
    /\ pc = "generate_response"
    /\ LET model == get_provider(state.llm_provider)
           call(answer) == LLMCall("generate_response", GenerateTemperature,
                                   model.provider, SynthesisPrompt(state), answer)
       IN  IF ~model.ok
           THEN /\ Raise([type |-> "ValueError", text |-> "not configured"])
                /\ UNCHANGED llmCalls
           ELSE \/ \E text \in ErrorTexts :
                     /\ llmCalls' = Append(llmCalls, call(NoneV))
                     /\ Raise([type |-> "Exception", text |-> text])
                \/ \E content \in ResponseContents :
                     LET response_text == _extract_text(content)
                         appended == Append(messages, AIMessage(response_text))
                     IN  /\ llmCalls' = Append(llmCalls, call(Some(content)))
                         /\ state' = [state EXCEPT !.response = Some(response_text)]
                         /\ writes' = [writes EXCEPT !.response = @ + 1]
                         /\ messages' = Reducer(appended, appended)
                         /\ pc' = "END"
                         /\ UNCHANGED <<sessions, req, out, failure>>
    /\ UNCHANGED <<calls, hits, configVars, probeVars, workerVars, authVars, sessionVars>>

\* what process_message returns (lines 256-264)
ProcessResult(st) ==
    [response |-> st.response, intent |-> st.intent,
     sources |-> [hero_context |-> st.hero_context,
                  build_context |-> st.build_context,
                  strategy_context |-> st.strategy_context]]

\* routes.chat lines 108-112: the previews of the non-empty sources
SourcePreview(k, v) == [type |-> k, content |-> v.v, cut |-> Len(v.v) > 200]

SourceList(sources) ==
    (IF Truthy(sources.hero_context)
        THEN <<SourcePreview("hero_context", sources.hero_context)>> ELSE <<>>) \o
    (IF Truthy(sources.build_context)
        THEN <<SourcePreview("build_context", sources.build_context)>> ELSE <<>>) \o
    (IF Truthy(sources.strategy_context)
        THEN <<SourcePreview("strategy_context", sources.strategy_context)>> ELSE <<>>)

\* chat(), after process_message has returned
ChatReturn ==
    /\ pc = "END"
    /\ LET result == ProcessResult(state)
       IN  out' = [status |-> 200, response |-> result.response, intent |-> result.intent,
                   sources |-> IF req.endpoint = "routes"
                                  THEN SourceList(result.sources) ELSE <<>>,
                   has_sources |-> req.endpoint = "routes"]
    /\ pc' = "idle"
    /\ req' = NoRequest
    /\ state' = NoState
    /\ messages' = <<>>
    /\ calls' = <<>>
    /\ hits' = NoHits
    /\ llmCalls' = <<>>
    /\ writes' = [intent |-> 0, response |-> 0]
    /\ UNCHANGED <<sessions, failure, configVars, probeVars, workerVars, authVars, sessionVars>>

-----------------------------------------------------------------------------
(* The session store: SessionManager, its Redis server and its callers *)

\* references of list objects; 0 stands for "no object"
Refs == 1..5

\* ttl_hours default of save_session
DefaultTTL == 24

\* the step of the model's clock, in hours (longer than the time to live), and
\* the longest time the model tells apart
TickHours == DefaultTTL + 1
LongAgo   == TickHours

\* the ttl_hours callers pass
TTLChoices == {DefaultTTL}

\* the lists callers build: the prefixes of a conversation user, assistant, system, ...
BaseMessage(i) ==
    CASE i % 3 = 1 -> HumanMessage(ToString(i))
      [] i % 3 = 2 -> AIMessage(ToString(i))
      [] OTHER     -> SystemMessage(ToString(i))

MaxLen == MAX_CONVERSATION_HISTORY + 2

InputLists ==
    {[i \in 1..k |-> BaseMessage(i)] : k \in 0..(MAX_CONVERSATION_HISTORY + 1)}
        \cup {<<SystemMessage("0"), HumanMessage("1")>>}

NewMessages == {HumanMessage("new")}

\* messages[-max_history:] when len(messages) > max_history (lines 81-83)
PySliceLast(msgs, max_history) ==
    IF Len(msgs) > max_history
    THEN IF max_history = 0 THEN msgs
         ELSE SubSeq(msgs, Len(msgs) - max_history + 1, Len(msgs))
    ELSE msgs

\* SessionManager._serialize_messages
_serialize_messages(msgs) ==
    [i \in 1..Len(msgs) |-> [type |-> msgs[i].class, content |-> msgs[i].content]]

\* SessionManager._deserialize_messages
RECURSIVE _deserialize_messages(_)
_deserialize_messages(messages_data) ==
    IF messages_data = <<>> THEN <<>>
    ELSE LET msg_data == Head(messages_data)
             rest == _deserialize_messages(Tail(messages_data))
         IN  IF msg_data.type = "HumanMessage"
             THEN <<HumanMessage(msg_data.content)>> \o rest
             ELSE IF msg_data.type = "AIMessage"
             THEN <<AIMessage(msg_data.content)>> \o rest
             ELSE rest

\* a key that forgets the session id
RedisKey_Shared(session_id) == "s1"

\* f"session:{session_id}": the Redis key of a session
RedisKey(session_id) == session_id

\* a get_session that decodes outside its try block
Caught_DecodeOutside(site) == site \in {"ping", "get", "setex", "delete"}

\* the places where Redis or the decoding may raise, and whether an except clause
\* of the SessionManager encloses them
Caught(site) == site \in {"ping", "get", "loads", "deserialize", "setex", "delete"}

Nil == [kind |-> "nil", data |-> <<>>, ttl |-> 0]

World == [use |-> use_redis, client |-> redis_client, mem |-> memory_store,
          heap |-> heap, redis |-> redis]

\* the smallest reference no root uses: the roots are the references in `keep` and
\* the memory store's entries other than the one of session `id`
Alloc(mem, id, keep) ==
    LET free == {r \in Refs : r \notin keep /\ \A j \in SessionIds \ {id} : mem[j] # r}
    IN  CHOOSE r \in free : \A q \in free : r <= q

\* SessionManager.redis_client (the property)
redis_client_property(w, pingOk) ==
    IF ~w.use
    THEN [w |-> w, client |-> FALSE, contacted |-> FALSE, failures |-> {},
          raised |-> FALSE]
    ELSE IF ~w.client
    THEN IF pingOk
         THEN [w |-> [w EXCEPT !.client = TRUE], client |-> TRUE, contacted |-> TRUE,
               failures |-> {}, raised |-> FALSE]
         ELSE [w |-> [w EXCEPT !.client = TRUE,
                               !.use = IF Caught("ping") THEN FALSE ELSE @],
               client |-> FALSE, contacted |-> TRUE, failures |-> {"ping"},
               raised |-> ~Caught("ping")]
    ELSE [w |-> w, client |-> TRUE, contacted |-> FALSE, failures |-> {},
          raised |-> FALSE]

\* SessionManager.get_session: ref is the stored list object it returns, or 0 when
\* it returns a new list
get_session(w, session_id, pingOk, getOk) ==
    LET c == redis_client_property(w, pingOk)
        tried == c.w.use /\ c.client
        data == c.w.redis[RedisKey(session_id)]
        site == IF ~getOk THEN "get"
                ELSE IF data.kind = "notjson" THEN "loads"
                ELSE IF data.kind = "badshape" THEN "deserialize"
                ELSE "none"
        failed == tried /\ site # "none"
        raised == c.raised \/ (failed /\ ~Caught(site))
        hit == tried /\ site = "none" /\ data.kind = "json"
        stored == c.w.mem[session_id]
    IN  [w |-> c.w,
         raised |-> raised,
         failures |-> c.failures \cup (IF failed THEN {site} ELSE {}),
         contacted |-> c.contacted \/ tried,
         ref |-> IF hit \/ raised THEN 0 ELSE stored,
         msgs |-> IF raised THEN <<>>
                  ELSE IF hit THEN _deserialize_messages(data.data)
                  ELSE IF stored # 0 THEN c.w.heap[stored]
                  ELSE <<>>]

\* SessionManager.save_session: `ref` is the list object passed (0: a list that is
\* not stored anywhere), `msgs` its content, `keep` the references the caller holds
save_session(w, session_id, ref, msgs, ttl_hours, pingOk, setOk, keep) ==
    LET truncated == PySliceLast(msgs, MAX_CONVERSATION_HISTORY)
        sliced == Len(msgs) > MAX_CONVERSATION_HISTORY
        c == redis_client_property(w, pingOk)
        tried == c.w.use /\ c.client
        failed == tried /\ ~setOk
        raised == c.raised \/ (failed /\ ~Caught("setex"))
        stored == tried /\ setOk
        w1 == IF stored
              THEN [c.w EXCEPT !.redis[RedisKey(session_id)] =
                       [kind |-> "json", data |-> _serialize_messages(truncated),
                        ttl |-> ttl_hours]]
              ELSE c.w
        target == IF sliced \/ ref = 0 THEN Alloc(w1.mem, session_id, keep) ELSE ref
        w2 == IF ~stored /\ ~raised
              THEN [w1 EXCEPT !.mem[session_id] = target, !.heap[target] = truncated]
              ELSE w1
    IN  [w |-> w2,
         raised |-> raised,
         failures |-> c.failures \cup (IF failed THEN {"setex"} ELSE {}),
         contacted |-> c.contacted \/ tried,
         truncated |-> truncated]

\* SessionManager.delete_session
delete_session(w, session_id, pingOk, delOk) ==
    LET c == redis_client_property(w, pingOk)
        tried == c.w.use /\ c.client
        failed == tried /\ ~delOk
        raised == c.raised \/ (failed /\ ~Caught("delete"))
        w1 == IF tried /\ delOk
              THEN [c.w EXCEPT !.redis[RedisKey(session_id)] = Nil]
              ELSE c.w
        w2 == IF ~raised THEN [w1 EXCEPT !.mem[session_id] = 0] ELSE w1
    IN  [w |-> w2,
         raised |-> raised,
         failures |-> c.failures \cup (IF failed THEN {"delete"} ELSE {}),
         contacted |-> c.contacted \/ tried]

\* the state after an operation: the world it leaves, the list the caller holds;
\* objects nothing refers to any more are forgotten
Commit(w, h) ==
    /\ use_redis' = w.use
    /\ redis_client' = w.client
    /\ memory_store' = w.mem
    /\ redis' = w.redis
    /\ held' = h
    /\ heap' = [r \in Refs |->
                  IF r = h \/ \E id \in SessionIds : w.mem[id] = r
                  THEN w.heap[r] ELSE <<>>]

\* the record of an operation: what it was given, what it returned and what
\* happened on the way
Ret(op, id, arg, result, r) ==
    [op |-> op, id |-> id, arg |-> arg, result |-> result, raised |-> r.raised,
     contacted |-> r.contacted, failures |-> r.failures,
     failedBefore |-> hist.failed,
     prevSave |-> IF ret.op = "save" /\ ret.id = id /\ ~ret.raised
                  THEN Some(ret.arg) ELSE NoneV,
     expired |-> id \in hist.saved /\ hist.sinceWrite[id] > hist.lastTtl[id],
     neverSaved |-> id \notin hist.saved]

Quiet == [raised |-> FALSE, contacted |-> FALSE, failures |-> {}]

NoRet == [op |-> "none", id |-> "s1", arg |-> <<>>, result |-> <<>>, raised |-> FALSE,
          contacted |-> FALSE, failures |-> {}, failedBefore |-> FALSE,
          prevSave |-> NoneV, expired |-> FALSE, neverSaved |-> TRUE]

\* the elements of a list
Range(msgs) == {msgs[i] : i \in 1..Len(msgs)}

\* the messages save_session cuts off the front of a list
Evicted(msgs) ==
    Range(SubSeq(msgs, 1, Len(msgs) - Len(PySliceLast(msgs, MAX_CONVERSATION_HISTORY))))

\* the history after a write of msgs to session id
Written(id, msgs, ttl_hours, r) ==
    [hist EXCEPT !.ops = @ + 1,
                 !.failed = @ \/ r.failures # {},
                 !.saved = IF r.raised THEN @ ELSE @ \cup {id},
                 !.sinceWrite[id] = IF r.raised THEN @ ELSE 0,
                 !.lastTtl[id] = IF r.raised THEN @ ELSE ttl_hours,
                 !.dropped[id] =
                     IF r.raised THEN @
                     ELSE ((@ \ Range(msgs)) \cup Evicted(msgs))
                              \ Range(PySliceLast(msgs, MAX_CONVERSATION_HISTORY)),
                 !.last[id] =
                     IF r.raised THEN @
                     ELSE Some(PySliceLast(msgs, MAX_CONVERSATION_HISTORY))]

\* a caller loads a session and keeps the list
GetSession(session_id) ==
    /\ hist.ops < MaxOps
    /\ \E pingOk, getOk \in BOOLEAN :
        LET g == get_session(World, session_id, pingOk, getOk)
            h == IF g.raised THEN held
                 ELSE IF g.ref # 0 THEN g.ref
                 ELSE Alloc(g.w.mem, "none", {})
            w == IF g.raised \/ g.ref # 0 THEN g.w
                 ELSE [g.w EXCEPT !.heap[h] = g.msgs]
        IN  /\ Commit(w, h)
            /\ ret' = Ret("get", session_id, <<>>, g.msgs, g)
            /\ hist' = [hist EXCEPT !.ops = @ + 1, !.failed = @ \/ g.failures # {}]
            /\ UNCHANGED <<configVars, probeVars, workerVars, authVars, chatVars>>

\* a caller appends to the list it holds
CallerAppend(message) ==
    /\ held # 0
    /\ hist.ops < MaxOps
    /\ Len(heap[held]) < MaxLen
    /\ Commit([World EXCEPT !.heap[held] = Append(@, message)], held)
    /\ ret' = Ret("append", "s1", <<message>>, <<>>, Quiet)
    /\ hist' = [hist EXCEPT !.ops = @ + 1]
    /\ UNCHANGED <<configVars, probeVars, workerVars, authVars, chatVars>>

\* a caller saves the list it holds
SaveHeld(session_id, ttl_hours) ==
    /\ held # 0
    /\ hist.ops < MaxOps
    /\ \E pingOk, setOk \in BOOLEAN :
        LET s == save_session(World, session_id, held, heap[held], ttl_hours,
                              pingOk, setOk, {held})
        IN  /\ Commit(s.w, held)
            /\ ret' = Ret("save", session_id, heap[held], <<>>, s)
            /\ hist' = Written(session_id, heap[held], ttl_hours, s)
            /\ UNCHANGED <<configVars, probeVars, workerVars, authVars, chatVars>>

\* a caller builds a list and saves it; it keeps the list
SaveNew(session_id, msgs, ttl_hours) ==
    /\ hist.ops < MaxOps
    /\ \E pingOk, setOk \in BOOLEAN :
        LET h == Alloc(memory_store, "none", {})
            s == save_session([World EXCEPT !.heap[h] = msgs], session_id, h, msgs,
                              ttl_hours, pingOk, setOk, {h})
        IN  /\ Commit(s.w, h)
            /\ ret' = Ret("save", session_id, msgs, <<>>, s)
            /\ hist' = Written(session_id, msgs, ttl_hours, s)
            /\ UNCHANGED <<configVars, probeVars, workerVars, authVars, chatVars>>

\* SessionManager.delete_session, called
DeleteSession(session_id) ==
    /\ hist.ops < MaxOps
    /\ \E pingOk, delOk \in BOOLEAN :
        LET d == delete_session(World, session_id, pingOk, delOk)
        IN  /\ Commit(d.w, held)
            /\ ret' = Ret("delete", session_id, <<>>, <<>>, d)
            /\ hist' = [hist EXCEPT !.ops = @ + 1, !.failed = @ \/ d.failures # {},
                                    !.dropped[session_id] = {},
                                    !.last[session_id] = NoneV]
            /\ UNCHANGED <<configVars, probeVars, workerVars, authVars, chatVars>>

\* SessionManager.add_message: get_session, append, save_session
AddMessage(session_id, message) ==
    /\ hist.ops < MaxOps
    /\ \E pingOk, getOk, setOk \in BOOLEAN :
        LET g == get_session(World, session_id, pingOk, getOk)
            appended == Append(g.msgs, message)
            w1 == IF g.ref # 0 THEN [g.w EXCEPT !.heap[g.ref] = appended] ELSE g.w
            s == save_session(w1, session_id, g.ref, appended, DefaultTTL,
                              pingOk, setOk, {held} \ {0})
            r == IF g.raised THEN g
                 ELSE [raised |-> s.raised, contacted |-> g.contacted \/ s.contacted,
                       failures |-> g.failures \cup s.failures]
        IN  /\ Len(g.msgs) < MaxLen
            /\ Commit(IF g.raised THEN g.w ELSE s.w, held)
            /\ ret' = Ret("add", session_id, <<message>>, <<>>, r)
            /\ hist' = Written(session_id, appended, DefaultTTL, r)
            /\ UNCHANGED <<configVars, probeVars, workerVars, authVars, chatVars>>

\* TickHours pass: Redis drops the keys whose time to live has run out
Tick ==
    /\ \/ \E id \in hist.saved : hist.sinceWrite[id] < LongAgo
       \/ \E id \in SessionIds : redis[id].kind # "nil"
    /\ redis' = [id \in SessionIds |->
                   IF redis[id].kind = "nil" \/ redis[id].ttl - TickHours <= 0
                   THEN Nil
                   ELSE [redis[id] EXCEPT !.ttl = @ - TickHours]]
    /\ hist' = [hist EXCEPT !.sinceWrite =
                   [id \in SessionIds |->
                       IF id \notin hist.saved THEN 0
                       ELSE IF hist.sinceWrite[id] + TickHours > LongAgo THEN LongAgo
                       ELSE hist.sinceWrite[id] + TickHours]]
    /\ ret' = Ret("tick", "s1", <<>>, <<>>, Quiet)
    /\ UNCHANGED <<use_redis, redis_client, memory_store, heap, held, configVars,
                   probeVars, workerVars, authVars, chatVars>>

\* another client of the Redis server overwrites a stored session with a value
\* that is no JSON ("notjson") or no list of message dictionaries ("badshape")
RedisCorrupt(session_id, kind) ==
    /\ redis[session_id].kind = "json"
    /\ redis' = [redis EXCEPT ![session_id] = [@ EXCEPT !.kind = kind, !.data = <<>>]]
    /\ ret' = Ret("corrupt", session_id, <<>>, <<>>, Quiet)
    /\ UNCHANGED <<use_redis, redis_client, memory_store, heap, held, hist, configVars,
                   probeVars, workerVars, authVars, chatVars>>

\* SessionManager.__init__ ; REDIS_HOST may be empty
SessionInit ==
    /\ use_redis \in BOOLEAN
    /\ redis_client = FALSE
    /\ memory_store = [id \in SessionIds |-> 0]
    /\ heap = [r \in Refs |-> <<>>]
    /\ redis = [id \in SessionIds |-> Nil]
    /\ held = 0
    /\ ret = NoRet
    /\ hist = [ops |-> 0, failed |-> FALSE, saved |-> {},
               sinceWrite |-> [id \in SessionIds |-> 0],
               lastTtl |-> [id \in SessionIds |-> 0],
               dropped |-> [id \in SessionIds |-> {}],
               last |-> [id \in SessionIds |-> NoneV]]

SessionIdle ==
    /\ use_redis = TRUE
    /\ redis_client = FALSE
    /\ memory_store = [id \in SessionIds |-> 0]
    /\ heap = [r \in Refs |-> <<>>]
    /\ redis = [id \in SessionIds |-> Nil]
    /\ held = 0
    /\ ret = NoRet
    /\ hist = [ops |-> 0, failed |-> FALSE, saved |-> {},
               sinceWrite |-> [id \in SessionIds |-> 0],
               lastTtl |-> [id \in SessionIds |-> 0],
               dropped |-> [id \in SessionIds |-> {}],
               last |-> [id \in SessionIds |-> NoneV]]

ChatInit ==
    /\ sessions = [e \in Endpoints |-> [id \in SessionIds |-> NoneV]]
    /\ pc = "idle"
    /\ req = NoRequest
    /\ state = NoState
    /\ messages = <<>>
    /\ out = NoOut
    /\ calls = <<>>
    /\ hits = NoHits
    /\ llmCalls = <<>>
    /\ writes = [intent |-> 0, response |-> 0]
    /\ failure = NoFailure

\* the callers of ConcurrentSpec, each before its request
Workers == {"A", "B"}

IdleWorker == [pc |-> "idle", id |-> "s1", to |-> "s1", ref |-> 0, loaded |-> <<>>,
               own |-> <<>>, before |-> 0]

WorkersIdle == workers = [w \in Workers |-> IdleWorker]

\* the register requests of AuthSpec, each before it is sent, and an empty table
Registrations == {"r1", "r2"}

NoRegistration == [pc |-> "idle", email |-> "", username |-> "", status |-> 0,
                   created |-> FALSE]

AuthIdle ==
    /\ users = <<>>
    /\ regs = [r \in Registrations |-> NoRegistration]

\* the settings: each provider's key is a placeholder or a real key
ConfigInit(keys) ==
    /\ api_key \in [Providers -> keys]
    /\ realKey = [p \in Providers |-> _is_real_key(api_key[p])]

NoProbe == [fn |-> "none", arg |-> NoneV, result |-> NoneV]

Init ==
    /\ ConfigInit({Some(KeyYourApiKeyHere), Some(KeyAlnum40)})
    /\ ChatInit
    /\ SessionIdle
    /\ probe = NoProbe
    /\ WorkersIdle
    /\ AuthIdle

Next ==
    \/ \E endpoint \in Endpoints, session_id \in SessionIds, message \in Queries,
          llm_provider \in {NoneV} \cup {Some(p) : p \in Providers} :
          \E language \in RequestLanguages(endpoint) :
              ChatStart(endpoint, session_id, message, llm_provider, language)
    \/ ClassifyIntent
    \/ RetrieveHero
    \/ RetrieveBuild
    \/ RetrieveStrategy
    \/ GenerateResponse
    \/ ChatReturn

Spec == Init /\ [][Next]_vars

\* the SessionManager and its callers, the chat endpoints idle
InitSession ==
    /\ ConfigInit({Some(KeyAlnum40)})
    /\ ChatInit
    /\ SessionInit
    /\ probe = NoProbe
    /\ WorkersIdle
    /\ AuthIdle

\* the session ids the callers of SessionSpec write to; they read all of them
CallerIds == {"s1"}

NextSession ==
    \/ \E session_id \in SessionIds : GetSession(session_id)
    \/ \E message \in NewMessages : CallerAppend(message)
    \/ \E session_id \in CallerIds, ttl_hours \in TTLChoices :
           SaveHeld(session_id, ttl_hours)
    \/ \E session_id \in CallerIds, msgs \in InputLists, ttl_hours \in TTLChoices :
           SaveNew(session_id, msgs, ttl_hours)
    \/ \E session_id \in CallerIds : DeleteSession(session_id)
    \/ \E session_id \in CallerIds, message \in NewMessages :
           AddMessage(session_id, message)
    \/ Tick
    \/ \E session_id \in CallerIds, kind \in {"notjson", "badshape"} :
           RedisCorrupt(session_id, kind)

SessionSpec == InitSession /\ [][NextSession]_vars

-----------------------------------------------------------------------------
(* Two callers of one SessionManager whose requests interleave: each request   *)
(* loads a session, appends its user message and its assistant message to the  *)
(* list it got, and saves the list.                                            *)

\* the messages a request appends: the user's turn and the assistant's answer
WorkerMessages(w) == <<HumanMessage("user " \o w), AIMessage("assistant " \o w)>>

\* the list objects the callers hold
HeldRefs(ws) == {ws[w].ref : w \in Workers} \ {0}

\* the state after a step of a caller; objects nothing refers to are forgotten
CommitShared(w, ws) ==
    /\ use_redis' = w.use
    /\ redis_client' = w.client
    /\ memory_store' = w.mem
    /\ redis' = w.redis
    /\ workers' = ws
    /\ heap' = [r \in Refs |->
                  IF r \in HeldRefs(ws) \/ \E id \in SessionIds : w.mem[id] = r
                  THEN w.heap[r] ELSE <<>>]
    /\ UNCHANGED <<held, configVars, probeVars, chatVars, authVars>>

\* the record of a caller's step: the operation and the session id it names
Step(op, id) == [NoRet EXCEPT !.op = op, !.id = id]

\* messages = get_session(session_id)
LoadRequest(w, session_id) ==
    /\ workers[w].pc = "idle"
    /\ \E pingOk, getOk \in BOOLEAN :
        LET g == get_session(World, session_id, pingOk, getOk)
            h == IF g.raised THEN 0
                 ELSE IF g.ref # 0 THEN g.ref
                 ELSE Alloc(g.w.mem, "none", HeldRefs(workers))
            w1 == IF g.raised \/ g.ref # 0 THEN g.w
                  ELSE [g.w EXCEPT !.heap[h] = g.msgs]
        IN  /\ CommitShared(w1, [workers EXCEPT ![w] =
                   [pc |-> IF g.raised THEN "done" ELSE "loaded", id |-> session_id,
                    to |-> session_id, ref |-> h, loaded |-> g.msgs, own |-> <<>>,
                    before |-> hist.ops]])
            /\ ret' = Step("get", session_id)
            /\ UNCHANGED hist

\* messages.append(...): the user message, later the assistant message
AppendRequest(w) ==
    /\ workers[w].pc = "loaded"
    /\ Len(workers[w].own) < Len(WorkerMessages(w))
    /\ LET message == WorkerMessages(w)[Len(workers[w].own) + 1]
       IN  /\ CommitShared([World EXCEPT !.heap[workers[w].ref] = Append(@, message)],
                           [workers EXCEPT ![w].own = Append(@, message)])
           /\ ret' = Step("append", workers[w].id)
    /\ UNCHANGED hist

\* save_session(session_id, messages)
SaveRequest(w, session_id) ==
    /\ workers[w].pc = "loaded"
    /\ \E pingOk, setOk \in BOOLEAN :
        LET ref == workers[w].ref
            s == save_session(World, session_id, ref, heap[ref], DefaultTTL,
                              pingOk, setOk, HeldRefs(workers))
        IN  /\ CommitShared(s.w, [workers EXCEPT ![w].pc = "done", ![w].ref = 0,
                                                 ![w].to = session_id])
            /\ ret' = Step("save", session_id)
            /\ UNCHANGED hist

\* add_message(session_id, message), called beside the requests
AddBeside(session_id, message) ==
    /\ hist.ops < MaxCalls
    /\ \E pingOk, getOk, setOk \in BOOLEAN :
        LET g == get_session(World, session_id, pingOk, getOk)
            appended == Append(g.msgs, message)
            w1 == IF g.ref # 0 THEN [g.w EXCEPT !.heap[g.ref] = appended] ELSE g.w
            s == save_session(w1, session_id, g.ref, appended, DefaultTTL,
                              pingOk, setOk, HeldRefs(workers))
        IN  /\ CommitShared(IF g.raised THEN g.w ELSE s.w, workers)
            /\ ret' = Step("add", session_id)
            /\ hist' = [hist EXCEPT !.ops = @ + 1]

\* delete_session(session_id), called beside the requests
DeleteBeside(session_id) ==
    /\ hist.ops < MaxCalls
    /\ \E pingOk, delOk \in BOOLEAN :
        LET d == delete_session(World, session_id, pingOk, delOk)
        IN  /\ CommitShared(d.w, workers)
            /\ ret' = Step("delete", session_id)
            /\ hist' = [hist EXCEPT !.ops = @ + 1]

InitConcurrent ==
    /\ ConfigInit({Some(KeyAlnum40)})
    /\ ChatInit
    /\ SessionInit
    /\ probe = NoProbe
    /\ WorkersIdle
    /\ AuthIdle

NextConcurrent ==
    \/ \E w \in Workers, session_id \in SessionIds : LoadRequest(w, session_id)
    \/ \E w \in Workers : AppendRequest(w)
    \/ \E w \in Workers, session_id \in SessionIds : SaveRequest(w, session_id)
    \/ \E session_id \in SessionIds, message \in NewMessages :
           AddBeside(session_id, message)
    \/ \E session_id \in SessionIds : DeleteBeside(session_id)

ConcurrentSpec == InitConcurrent /\ [][NextConcurrent]_vars

-----------------------------------------------------------------------------
(* The register endpoint: each await is a point where another request may run *)

\* a register request arrives
Register(r, email, username) ==
    /\ regs[r].pc \in {"idle", "done"}
    /\ regs' = [regs EXCEPT ![r] = [pc |-> "check_email", email |-> email,
                                    username |-> username, status |-> 0,
                                    created |-> FALSE]]
    /\ UNCHANGED <<users, configVars, chatVars, sessionVars, probeVars, workerVars>>

\* lines 16-18: select by email, 400 when a row is found
CheckEmail(r) ==
    /\ regs[r].pc = "check_email"
    /\ regs' = IF \E i \in 1..Len(users) : users[i].email = regs[r].email
               THEN [regs EXCEPT ![r].pc = "done", ![r].status = 400]
               ELSE [regs EXCEPT ![r].pc = "check_username"]
    /\ UNCHANGED <<users, configVars, chatVars, sessionVars, probeVars, workerVars>>

\* lines 21-23: select by username, 400 when a row is found
CheckUsername(r) ==
    /\ regs[r].pc = "check_username"
    /\ regs' = IF \E i \in 1..Len(users) : users[i].username = regs[r].username
               THEN [regs EXCEPT ![r].pc = "done", ![r].status = 400]
               ELSE [regs EXCEPT ![r].pc = "commit"]
    /\ UNCHANGED <<users, configVars, chatVars, sessionVars, probeVars, workerVars>>

\* lines 25-36: db.add and db.commit. The users table has a unique index on email
\* and on username (user.py lines 16-17): the commit of a second row with the same
\* value raises IntegrityError, which no handler catches, and the answer is 500.
CommitUser(r) ==
    /\ regs[r].pc = "commit"
    /\ IF \E i \in 1..Len(users) : \/ users[i].email = regs[r].email
                                   \/ users[i].username = regs[r].username
       THEN /\ regs' = [regs EXCEPT ![r].pc = "done", ![r].status = 500]
            /\ UNCHANGED users
       ELSE /\ users' = Append(users, [email |-> regs[r].email,
                                       username |-> regs[r].username])
            /\ regs' = [regs EXCEPT ![r].pc = "done", ![r].status = 201,
                                    ![r].created = TRUE]
    /\ UNCHANGED <<configVars, chatVars, sessionVars, probeVars, workerVars>>

InitAuth ==
    /\ ConfigInit({Some(KeyAlnum40)})
    /\ ChatInit
    /\ SessionIdle
    /\ probe = NoProbe
    /\ WorkersIdle
    /\ AuthIdle

NextAuth ==
    \/ \E r \in Registrations, email \in {"a@test.com", "b@test.com"},
          username \in {"user1", "user2"} : Register(r, email, username)
    \/ \E r \in Registrations : CheckEmail(r)
    \/ \E r \in Registrations : CheckUsername(r)
    \/ \E r \in Registrations : CommitUser(r)

AuthSpec == InitAuth /\ [][NextAuth]_vars

\* the helper functions called directly, with every configuration of the two keys
ProviderInputs == {NoneV} \cup {Some(p) : p \in Providers \cup {"openai"}}

ExtractInputs ==
    ClassifierContents \cup ResponseContents \cup
    {StrContent("Layla is strong."), ListContent(<<>>), ListContent(<<OtherDict>>),
     ListContent(<<StrPart("b"), StrPart("a")>>),
     ListContent(<<TextDict("a"), OtherDict, TextDict("b"), StrPart("c")>>)}

Probe(fn, arg, result) == [fn |-> fn, arg |-> arg, result |-> result]

CallGetProvider(provider) ==
    /\ probe' = Probe("get_provider", provider, get_provider(provider))
    /\ UNCHANGED <<configVars, chatVars, sessionVars, workerVars, authVars>>

CallIsRealKey(key) ==
    /\ probe' = Probe("_is_real_key", key, _is_real_key(key))
    /\ UNCHANGED <<configVars, chatVars, sessionVars, workerVars, authVars>>

CallExtractText(content) ==
    /\ probe' = Probe("_extract_text", content, _extract_text(content))
    /\ UNCHANGED <<configVars, chatVars, sessionVars, workerVars, authVars>>

InitHelper ==
    /\ ConfigInit({NoneV, Some(KeyYourApiKeyHere), Some(KeyAlnum40)})
    /\ ChatInit
    /\ SessionIdle
    /\ probe = NoProbe
    /\ WorkersIdle
    /\ AuthIdle

NextHelper ==
    \/ \E provider \in ProviderInputs : CallGetProvider(provider)
    \/ \E key \in Keys : CallIsRealKey(key)
    \/ \E content \in ExtractInputs : CallExtractText(content)

HelperSpec == InitHelper /\ [][NextHelper]_vars

-----------------------------------------------------------------------------
(* Properties of the coaching graph *)

RetrievalStages == {"retrieve_hero", "retrieve_build", "retrieve_strategy"}
AfterClassify   == RetrievalStages \cup {"generate_response", "END"}

CallsOf(retriever) == SelectSeq(calls, LAMBDA c : c.retriever = retriever)

\* C1: when a retrieval call (hero, build or strategy) fails, the request is not
\* aborted: no request ends with the exception of a retrieval stage.
C1_RetrievalFailureNeverAborts ==
    ~(pc = "raised" /\ failure.stage \in RetrievalStages)

\* C2: when the classified intent is general_chat, the request makes no retrieval
\* call on any retriever and the three context slots are unset at every point after
\* classification, the generated response included.
C2_GeneralChatNoRetrieval ==
    (pc \in AfterClassify /\ state.intent = Some("general_chat"))
        => /\ calls = <<>>
           /\ state.hero_context = NoneV
           /\ state.build_context = NoneV
           /\ state.strategy_context = NoneV

C2_Witness ==
    /\ pc = "END"
    /\ state.intent = Some("general_chat")
    /\ state.response.some
    /\ Len(llmCalls) = 2

\* C9, state part: intent and response are each assigned at most once; the intent is
\* assigned before any retrieval stage runs or calls; the response is unset until
\* the terminal transition and set when the graph has ended.
C9_StateInv ==
    /\ writes.intent <= 1 /\ writes.response <= 1
    /\ state.intent.some <=> writes.intent = 1
    /\ state.response.some <=> writes.response = 1
    /\ pc \in AfterClassify => writes.intent = 1
    /\ calls # <<>> => writes.intent = 1
    /\ pc = "END" => writes.response = 1
    /\ pc # "END" => ~state.response.some

\* C9, step part: within a request an intent or response that is set is never
\* changed, the intent is assigned by classify_intent and the response by the step
\* from generate_response to END.
SameRequest == pc' \notin {"idle", "classify_intent"}

C9_StepInv ==
    /\ (state.intent.some /\ SameRequest) => state'.intent = state.intent
    /\ (state.response.some /\ SameRequest) => state'.response = state.response
    /\ (~state.intent.some /\ state'.intent.some) => pc = "classify_intent"
    /\ (~state.response.some /\ state'.response.some)
           => (pc = "generate_response" /\ pc' = "END")

\* C9: within one request the intent is set exactly once and before any retrieval
\* stage runs, and the response is set exactly once, at the final generate_response
\* step, and never changed afterwards.
C9_IntentAndResponseSetOnce == []C9_StateInv /\ [][C9_StepInv]_vars

C9_Witness ==
    /\ pc = "END"
    /\ writes = [intent |-> 1, response |-> 1]
    /\ calls # <<>>

\* C10: for every intent, once the request has left the graph (with a response or
\* with an exception after classification), the hero retriever was called once with
\* k=3 iff the intent is hero_info or matchup_analysis, the build retriever once
\* with k=3 iff it is build_recommendation, the strategy retriever once with k=5 iff
\* it is general_strategy or matchup_analysis; a stage whose predicate is false made
\* no call and left its slot unset.
StageCalled(retriever, k, runs, slot) ==
    IF runs
    THEN CallsOf(retriever) = <<RetrieveCall(retriever, state.user_query, k)>>
    ELSE CallsOf(retriever) = <<>> /\ state[slot] = NoneV

C10_EachRetrieverCalledIffIntent ==
    (pc \in {"END", "raised"} /\ state.intent.some)
        => /\ StageCalled("hero", 3, state.intent.v \in {"hero_info", "matchup_analysis"},
                          "hero_context")
           /\ StageCalled("build", 3, state.intent.v = "build_recommendation",
                          "build_context")
           /\ StageCalled("strategy", 5,
                          state.intent.v \in {"general_strategy", "matchup_analysis"},
                          "strategy_context")

\* the text of the classifier's answer to the request in flight, trimmed and
\* lower-cased
ClassifierLabel == StripLower(_extract_text(llmCalls[1].answer.v))

\* C12: the intent stored is the classifier's trimmed, lower-cased answer when that
\* is one of the five intents and general_strategy otherwise; normalizing the stored
\* intent again returns it; the intent process_message returns is one of the five.
C12_IntentNormalized ==
    /\ state.intent.some =>
           /\ state.intent.v \in valid_intents
           /\ ClassifierLabel \in valid_intents => state.intent.v = ClassifierLabel
           /\ ClassifierLabel \notin valid_intents => state.intent.v = "general_strategy"
           /\ ValidateIntent(state.intent.v) = state.intent.v
    /\ out.status = 200 => (out.intent.some /\ out.intent.v \in valid_intents)
    /\ \A t \in ClassifierTexts :
           ValidateIntent(ValidateIntent(StripLower(t))) = ValidateIntent(StripLower(t))

C12_Witness ==
    /\ pc = "END"
    /\ ClassifierLabel = "this is a question about builds."
    /\ state.intent = Some("general_strategy")
    /\ state.response.some

\* C13: when process_message has succeeded, the history stored for the session of
\* the request is the prior history followed by the user message and the assistant
\* response; it is what the next turn of the session starts from.
C13_HistoryGrowsByTurn ==
    pc = "END" =>
        sessions[req.endpoint][req.session_id] =
            Some(req.prior \o <<HumanMessage(req.message),
                                AIMessage(state.response.v)>>)

\* the classification calls of the request in flight
ClassificationCalls == SelectSeq(llmCalls, LAMBDA c : c.stage = "classify_intent")

\* the synthesis calls of the request in flight
SynthesisCalls == SelectSeq(llmCalls, LAMBDA c : c.stage = "generate_response")

\* the context of a prompt that holds the hero block and then the strategy block,
\* each only when its text is not empty
HeroThenStrategy(hero, strategy) ==
    IF hero # "" /\ strategy # ""
    THEN "Hero Information:\n" \o hero \o "\n\n" \o "Strategy Information:\n" \o strategy
    ELSE IF hero # "" THEN "Hero Information:\n" \o hero
    ELSE IF strategy # "" THEN "Strategy Information:\n" \o strategy
    ELSE "No specific context available."

\* C11: when the intent is matchup_analysis, once the request has left the graph
\* both the hero and the strategy retrieval have run, hero first, and the context of
\* every synthesis prompt sent is the hero block followed by the strategy block.
C11_MatchupHeroBeforeStrategy ==
    (pc \in {"END", "raised"} /\ state.intent = Some("matchup_analysis"))
        => /\ Len(calls) = 2
           /\ calls[1].retriever = "hero" /\ calls[2].retriever = "strategy"
           /\ state.hero_context.some /\ state.strategy_context.some
           /\ \A i \in 1..Len(SynthesisCalls) :
                  SynthesisCalls[i].prompt.context =
                      HeroThenStrategy(state.hero_context.v, state.strategy_context.v)

\* C14: a request invokes the model at most once for classification and at most
\* once for synthesis; a call that failed is the last call of the request; after a
\* failed classification no retriever and no synthesis call was made; a failed
\* classification or synthesis ends the request with an error status and no
\* response.
C14_ProviderFailureNotRetried ==
    /\ Len(ClassificationCalls) <= 1
    /\ Len(SynthesisCalls) <= 1
    /\ \A i \in 1..Len(llmCalls) :
           ~llmCalls[i].answer.some =>
               /\ i = Len(llmCalls)
               /\ pc = "raised"
               /\ failure.stage = llmCalls[i].stage
    /\ (pc = "raised" /\ failure.stage = "classify_intent") =>
           /\ calls = <<>>
           /\ SynthesisCalls = <<>>
    /\ (pc = "raised" /\ failure.stage \in {"classify_intent", "generate_response"}) =>
           /\ out.status \in {400, 401, 500}
           /\ ~out.response.some

C14_Witness ==
    /\ pc = "raised"
    /\ failure.stage = "generate_response"
    /\ Len(ClassificationCalls) = 1
    /\ Len(SynthesisCalls) = 1
    /\ ~SynthesisCalls[1].answer.some
    /\ calls # <<>>
    /\ out.status = 500

\* the provider a request in flight runs on: the one it names, else the default
AskedProvider == IF req.llm_provider.some THEN req.llm_provider.v
                 ELSE DEFAULT_LLM_PROVIDER

\* C16: at the chat boundary a request is rejected with 503 when no provider is
\* available and with 400 when the requested provider, or the default provider used
\* because none was requested, is not available; in both cases no retrieval call
\* has been made when the request is rejected.
C16_UnavailableProviderRejectedEarly ==
    /\ list_available_providers = {} =>
           /\ pc = "idle"
           /\ out.status \in {0, 503}
           /\ calls = <<>>
    /\ (pc # "idle" /\ ~realKey[AskedProvider]) =>
           /\ ~req.llm_provider.some
           /\ pc \in {"classify_intent", "raised"}
           /\ calls = <<>>
           /\ pc = "raised" => out.status = 400
    /\ (pc = "idle" /\ out.status \in {400, 503}) => calls = <<>>

\* the provider call of a node raised
ProviderFailed ==
    /\ pc = "raised"
    /\ failure.stage \in {"classify_intent", "generate_response"}
    /\ failure.exc.type = "Exception"

\* C17: at every chat endpoint a provider failure during classification or
\* synthesis whose error text has an authentication or API-key phrase is answered
\* with 401, and any other provider failure with 500.
C17_AuthFailureIs401 ==
    ProviderFailed =>
        out.status = IF IsAuthText(failure.exc.text) THEN 401 ELSE 500

\* C20: the sources map returned by process_message has an entry only for a context
\* slot that was set; a slot whose retrieval stage did not run has no entry.
C20_UnsetSlotsOmitted ==
    pc = "END" =>
        LET sources == ProcessResult(state).sources
        IN  \A slot \in DOMAIN sources : sources[slot].some

\* the namespace each specialised retriever is constructed with (retriever.py lines
\* 178, 209, 235)
RetrieverNamespace(retriever) ==
    CASE retriever = "hero"     -> "heroes"
      [] retriever = "build"    -> "builds"
      [] retriever = "strategy" -> "strategies"

\* C24: each executed retrieval stage queries the vector store in the namespace of
\* its own retriever: the hero stage in "heroes", the build stage in "builds", the
\* strategy stage in "strategies".
C24_StageQueriesOwnNamespace ==
    \A i \in 1..Len(calls) :
        calls[i].namespace = Some(RetrieverNamespace(calls[i].retriever))

\* the passages of a scored retrieval
Passages(scored) == [i \in 1..Len(scored) |-> scored[i].doc]

\* C30: the context block of every retrieval stage that has run is made of exactly
\* the passages of the backend result whose score is at least the threshold, in
\* the backend's order; no passage below the threshold is in it.
C30_ThresholdAppliedToContext ==
    \A slot \in ContextSlots :
        hits[slot].some =>
            state[slot] = Some(format_documents(
                              Passages(similarity_search_with_score(hits[slot].v))))

\* C28: when classification or synthesis fails, the history stored for the session
\* of the request is the prior history followed by the user message of the failed
\* turn, with no assistant message.
C28_FailedTurnKeepsUserMessage ==
    (pc = "raised" /\ failure.stage \in {"classify_intent", "generate_response"})
        => sessions[req.endpoint][req.session_id] =
               Some(req.prior \o <<HumanMessage(req.message)>>)

-----------------------------------------------------------------------------
(* Properties of the session store *)

\* the last n elements of a sequence longer than n
LastN(msgs, n) == SubSeq(msgs, Len(msgs) - n + 1, Len(msgs))

SessionOps == {"get", "save", "delete", "add"}

\* C3: for every list of messages longer than MAX_CONVERSATION_HISTORY,
\* get_session(id) right after save_session(id, messages) returns exactly the last
\* MAX_CONVERSATION_HISTORY messages of that list, in their order.
C3_GetAfterSaveReturnsLastN ==
    (/\ ret.op = "get"
     /\ ret.prevSave.some
     /\ Len(ret.prevSave.v) > MAX_CONVERSATION_HISTORY)
        => ret.result = LastN(ret.prevSave.v, MAX_CONVERSATION_HISTORY)

\* C4: a session that was not written for longer than its time to live is unknown:
\* get_session returns the empty list, whichever store holds the session.
C4_ExpiredSessionLoadsEmpty ==
    (ret.op = "get" /\ ret.expired) => ret.result = <<>>

\* C5: once a connection attempt or a Redis operation has failed, no later
\* get_session, save_session, delete_session (or add_message) contacts Redis.
C5_DegradeIsOneWay ==
    (ret.op \in SessionOps /\ ret.failedBefore) => ~ret.contacted

\* C6: get_session, save_session and delete_session (and add_message, which is made
\* of them) return normally whatever fails: the connection, the read, the write,
\* the delete or the decoding of the stored value.
C6_SessionStoreNeverRaises ==
    ret.op \in SessionOps => ~ret.raised

C6_Witness ==
    /\ ret.op = "get"
    /\ ret.failures \cap {"loads", "deserialize"} # {}
    /\ hist.failed
    /\ ~ret.raised

\* C7: for a session id that was never saved, get_session returns the empty list
\* and does not raise, with Redis in use as without.
C7_UnknownIdLoadsEmpty ==
    (ret.op = "get" /\ ret.neverSaved) => (ret.result = <<>> /\ ~ret.raised)

C7_Witness ==
    /\ ret.op = "get"
    /\ ret.neverSaved
    /\ ret.contacted
    /\ ret.id = "s2"
    /\ redis["s1"].kind = "json" /\ redis["s1"].data # <<>>
    /\ ret.result = <<>>

\* the messages the stores hold for a session
InMemory(id) == IF memory_store[id] = 0 THEN <<>> ELSE heap[memory_store[id]]
InRedis(id)  == IF redis[RedisKey(id)].kind = "json" THEN redis[RedisKey(id)].data ELSE <<>>

\* C8: after any sequence of save_session and add_message calls each stored session
\* holds at most MAX_CONVERSATION_HISTORY messages, and a message that a save cut
\* off the front of a session is in no later get_session result of that session
\* (unless a caller saved it again).
C8_SessionsHoldAtMostN ==
    /\ ret.op \in {"save", "add"} =>
           \A id \in SessionIds :
               /\ Len(InMemory(id)) <= MAX_CONVERSATION_HISTORY
               /\ Len(InRedis(id)) <= MAX_CONVERSATION_HISTORY
    /\ (ret.op = "get" /\ ~ret.raised) =>
           Range(ret.result) \cap hist.dropped[ret.id] = {}

\* C25: get_session returns the content of the most recent save_session for that id
\* (cut to N) and never the content of an older save, whatever failed and recovered
\* between the calls.
C25_GetReturnsLatestSave ==
    (/\ ret.op = "get"
     /\ ~ret.expired
     /\ hist.last[ret.id].some)
        => ret.result = hist.last[ret.id].v

\* C26: saving and loading a session preserves every message: for a list of at most
\* N messages with roles user, assistant or system, get_session right after
\* save_session returns as many messages, with the same role and content at each
\* position, with Redis in use as without (no Redis call failing).
C26_RoundTripPreservesMessages ==
    (/\ ret.op = "get"
     /\ ret.prevSave.some
     /\ Len(ret.prevSave.v) <= MAX_CONVERSATION_HISTORY
     /\ ~ret.failedBefore
     /\ ret.failures = {})
        => /\ Len(ret.result) = Len(ret.prevSave.v)
           /\ \A i \in 1..Len(ret.result) :
                  /\ ret.result[i].class = ret.prevSave.v[i].class
                  /\ ret.result[i].content = ret.prevSave.v[i].content

\* the session was saved once and deleted since its last save
DeletedSinceSave(id) == id \in hist.saved /\ ~hist.last[id].some

\* C27: after delete_session(id) has returned, get_session(id) returns the empty
\* list until the next save_session(id), whatever failed and recovered around the
\* delete.
C27_DeletedSessionLoadsEmpty ==
    (ret.op = "get" /\ DeletedSinceSave(ret.id)) => ret.result = <<>>


-----------------------------------------------------------------------------
(* Properties of the helper functions *)

\* C15: get_provider with no identifier resolves the configured default provider;
\* with an identifier it resolves that provider; when the provider asked for (or
\* the default) is unknown or its key is not a real key it fails with a ValueError
\* and never resolves another provider, also when another one is available.
C15_ResolveNeverSubstitutes ==
    probe.fn = "get_provider" =>
        LET asked == IF probe.arg.some THEN probe.arg.v ELSE DEFAULT_LLM_PROVIDER
            usable == IF asked \in Providers THEN _is_real_key(api_key[asked]) ELSE FALSE
        IN  IF usable
            THEN probe.result = [ok |-> TRUE, provider |-> asked]
            ELSE probe.result = [ok |-> FALSE, error |-> "ValueError"]

C15_Witness ==
    /\ probe.fn = "get_provider"
    /\ probe.arg = Some("claude")
    /\ ~realKey["claude"]
    /\ realKey["gemini"]
    /\ ~probe.result.ok

\* letters and digits only
IsAlnum(str) ==
    \A i \in 1..Len(str) :
        \/ str[i] \in Digits
        \/ \E j \in 1..Len(UpperLetters) : str[i] \in {UpperLetters[j], LowerLetters[j]}

\* the key starts with one of the placeholder prefixes as they are written
HasListedPrefix(str) ==
    \E i \in 1..Len(placeholder_prefixes) : StartsWith(str, placeholder_prefixes[i])

\* the key starts with one of the placeholder prefixes in any letter case
HasPrefixAnyCase(str) ==
    \E i \in 1..Len(placeholder_prefixes) :
        StartsWith(Lower(str), Lower(placeholder_prefixes[i]))

\* what the heuristic requires of an available key
OnlyIfReal(key, result) ==
    result => /\ key.some
              /\ key.v # <<>>
              /\ Len(key.v) >= 20
              /\ ~HasListedPrefix(key.v)
              /\ key.v \notin {<<>>, KeyNone, KeyNull, KeyUndefined}

IsTextPart(part) == part.kind = "str" \/ (part.kind = "dict" /\ part.has_text)

\* the first n texts, each but the first preceded by one space
RECURSIVE SpaceJoined(_, _)
SpaceJoined(texts, n) ==
    IF n = 0 THEN ""
    ELSE IF n = 1 THEN texts[1]
    ELSE SpaceJoined(texts, n - 1) \o " " \o texts[n]

\* C19: _extract_text always returns a single string: plain string content is
\* returned as is, and a sequence of parts becomes the texts of its parts (plain
\* strings and tagged text fragments) joined with exactly one space, in their
\* original order.
C19_ExtractTextJoins ==
    probe.fn = "_extract_text" =>
        /\ probe.result \in STRING
        /\ ~probe.arg.list => probe.result = probe.arg.text
        /\ probe.arg.list =>
               LET kept == SelectSeq(probe.arg.parts, IsTextPart)
                   texts == [i \in 1..Len(kept) |-> kept[i].text]
               IN  probe.result = SpaceJoined(texts, Len(texts))

\* a content of four parts, one of them without text, was turned into "a b c"
C19_Witness ==
    /\ probe.fn = "_extract_text"
    /\ probe.arg = ListContent(<<TextDict("a"), OtherDict, TextDict("b"), StrPart("c")>>)
    /\ probe.result = "a b c"

-----------------------------------------------------------------------------
(* Properties of the session store under concurrent callers *)

\* what get_session(id) returns when Redis answers
Visible(id) == get_session(World, id, TRUE, TRUE).msgs

\* the history a request writes: what it loaded, then its own messages, cut to N
WrittenBy(w) ==
    PySliceLast(workers[w].loaded \o workers[w].own, MAX_CONVERSATION_HISTORY)

\* both requests ran on session id, each from its load over its two appends to
\* its save, no other call was made meanwhile, and the second save has just
\* returned
BothDoneOn(id) ==
    /\ ret.op = "save"
    /\ \A w \in Workers :
           /\ workers[w].pc = "done"
           /\ workers[w].before = hist.ops
           /\ workers[w].id = id
           /\ workers[w].to = id
           /\ workers[w].own = WorkerMessages(w)

\* C21: when two requests for the same session id run concurrently (each doing
\* load, append, save), the history finally stored for that id is exactly the
\* history written by one of the two requests, never a mix of both.
C21_LastWriteWins ==
    \A id \in SessionIds :
        BothDoneOn(id) => Visible(id) \in {WrittenBy(w) : w \in Workers}

\* C22: a save_session, add_message, delete_session or request step on session A
\* leaves the history returned for every other session B unchanged.
C22_SessionsIsolated ==
    [][\A id \in SessionIds : id # ret'.id => Visible(id)' = Visible(id)]_vars

\* C29: the list get_session returned is a snapshot: when the caller appends to
\* the list it has just got and does not save, what get_session returns for every
\* session stays what it was, whether Redis answers the later call or not.
C29_ReturnedListIsSnapshot ==
    [][(ret.op = "get" /\ ret'.op = "append") =>
          \A id \in SessionIds : \A pingOk, getOk \in BOOLEAN :
              get_session(World, id, pingOk, getOk).msgs' =
                  get_session(World, id, pingOk, getOk).msgs]_vars

-----------------------------------------------------------------------------
(* Properties of the register endpoint *)

\* C23: no two users share an email, and a register request whose email is already
\* registered is answered with 400 and creates no user, also when two register
\* requests for the same email run concurrently.
C23_EmailUnique ==
    /\ \A i, j \in 1..Len(users) : users[i].email = users[j].email => i = j
    /\ \A r \in Registrations :
           (/\ regs[r].pc = "done"
            /\ ~regs[r].created
            /\ \E i \in 1..Len(users) : users[i].email = regs[r].email)
               => regs[r].status = 400

=============================================================================
